---- MODULE Spec2Model ----
(***************************************************************************)
(* A model of the calendar synchronisation engine of artful-agenda:        *)
(*   - CalendarSyncService (src/src/services/calendarSync.ts): the         *)
(*     conflict resolver, the provider adapters (normalize / format) and   *)
(*     the pull / poll / token-refresh lifecycle.                          *)
(*   - RealtimeSyncService (src/src/services/realtimeSync.ts): the         *)
(*     realtime channel.                                                   *)
(*   - the Sync Queue that feeds both services.                            *)
(*   - PluginManager (src/src/services/pluginManager.ts): the plugin       *)
(*     registry and its init / destroy hooks.                              *)
(*   - useCache (src/unnamed/part_008): the bounded in-memory cache.       *)
(* The module holds nine specifications over one set of variables:         *)
(*   ResolveSpec  applies resolveConflict to every pair of events,         *)
(*   AdapterSpec  applies normalizeProviderEvents and                      *)
(*                formatEventForProvider to provider batches,              *)
(*   SyncSpec     runs initializeSync / poll ticks / stopSync against a    *)
(*                provider that may answer 200, 401 or a network error,    *)
(*   FoldSpec     reduces a multi-way conflict pairwise,                   *)
(*   PushSpec     drains the Sync Queue through pushEvent,                 *)
(*   CustomSpec   pulls and pushes with a provider outside the known set,  *)
(*   ChannelSpec  drains the Sync Queue through the realtime channel,      *)
(*   PluginSpec   registers, enables, disables and unregisters plugins,    *)
(*   CacheSpec    applies the useCache operations as time passes.          *)
(***************************************************************************)
EXTENDS Integers, Sequences, FiniteSets, TLC

VARIABLES
    config,         \* this.config: provider, conflictResolution, accessToken, apiEndpoint
    conflictLocal,  \* the localEvent argument handed to resolveConflict
    conflictRemote, \* the remoteEvent argument handed to resolveConflict
    resolved,       \* <<>> or <<the event resolveConflict returned>>
    resolvedAgain,  \* <<>> or <<resolveConflict(resolved, conflictRemote)>>
    data,           \* response.data handed to normalizeProviderEvents
    normalized,     \* outcome of normalizeProviderEvents(data)
    formatted,      \* outcomes of formatEventForProvider on each normalized event
    calls,          \* the initializeSync / poll-tick calls, in the order they began
    syncInterval,   \* this.syncInterval: 0 (null) or the id of a timer
    timers,         \* the setInterval timers that are armed: id and period
    nextTimer,      \* the id the next setInterval returns
    foldLocal,      \* the local version a multi-way conflict starts from
    foldRemotes,    \* the remote versions of the same id, from N sources
    foldArrived,    \* the remote versions resolved so far, in arrival order
    foldWinner,     \* the version kept so far
    syncQueue,      \* the Sync Queue: pending operations, oldest first
    nextSeq,        \* the client sequence number of the next local mutation
    deadLetter,     \* the operations given up on and reported, in order
    pushing,        \* <<>> or <<sequence number of the operation pushEvent is sending>>
    posted,         \* the requests the provider has accepted, in order
    socket,         \* this.socket: 0 (null) or the index of a socket in sockets
    sockets,        \* the sockets io() has created, each with its state and buffer
    wire,           \* sequence numbers of the operations the server has received, in order
    delivered,      \* the inbound batches handed to the operations callback, in order
    logged,         \* the lines the channel's presence / cursor handlers have logged
    nextBatch,      \* the number of the next event the server emits
    plugins,        \* PluginManager.plugins: per plugin id, the plugin registered under it
    hookLog,        \* per plugin id, the init / destroy hooks invoked on it, in order
    cache,          \* useCache's cache: its entries in key order
    now,            \* Date.now()
    cacheOptions,   \* the options useCache was called with
    lastEvicted     \* the key set() evicted last to make room, or "none"

resolverVars == <<conflictLocal, conflictRemote, resolved, resolvedAgain>>
adapterVars  == <<data, normalized, formatted>>
syncVars     == <<calls, syncInterval, timers, nextTimer>>
foldVars     == <<foldLocal, foldRemotes, foldArrived, foldWinner>>
queueVars    == <<syncQueue, nextSeq, deadLetter>>
pushVars     == <<pushing, posted>>
channelVars  == <<socket, sockets, wire>>
inboundVars  == <<delivered, logged, nextBatch>>
pluginVars   == <<plugins, hookLog>>
cacheVars    == <<cache, now, cacheOptions, lastEvicted>>
vars == <<config, conflictLocal, conflictRemote, resolved, resolvedAgain,
          data, normalized, formatted, calls, syncInterval, timers, nextTimer,
          foldLocal, foldRemotes, foldArrived, foldWinner,
          syncQueue, nextSeq, deadLetter, pushing, posted, socket, sockets, wire,
          delivered, logged, nextBatch, plugins, hookLog, cache, now, cacheOptions,
          lastEvicted>>

(***************************************************************************)
(* Bounds of the model.                                                    *)
(***************************************************************************)
MaxTimestamp == 2   \* last-modified instants range over 0..MaxTimestamp
MaxInstant == 1     \* start / end instants range over 0..MaxInstant
MaxBatch == 2       \* a fetched batch holds at most MaxBatch items
MaxCalls == 3       \* initializeSync calls and poll ticks begun in one run
MaxUnauthorized == 2    \* 401 answers the provider gives in one run
MaxRemotes == 2     \* remote versions of one id in a multi-way conflict
MaxOps == 2         \* local mutations made in one run
MaxSockets == 2     \* sockets one RealtimeSyncService opens in one run
MaxInbound == 2     \* events the server emits in one run
MaxHooks == 3       \* hook invocations followed per plugin id
MaxClock == 3       \* Date.now() ranges over 0..MaxClock
MaxCacheSize == 2   \* options.maxSize ranges over 1..MaxCacheSize

(***************************************************************************)
(* JavaScript values.                                                      *)
(***************************************************************************)
\* Date.parse of an unparsable string, and the time value of an Invalid Date.
NaN == -1

\* The marker for a property that is undefined (absent) on an object.
Undefined == "undefined"

\* JavaScript's a > b on numbers: false as soon as one side is NaN.
Gt(a, b) == a # NaN /\ b # NaN /\ a > b

\* JavaScript's a >= b on numbers.
Ge(a, b) == a # NaN /\ b # NaN /\ a >= b

Providers == {"google", "apple", "outlook"}
SourceCalendars == {"native", "google", "apple", "outlook"}

\* config.conflictResolution: the three strategies, a missing value and a
\* value the switch does not know.
Strategies == {"source", "local", "timestamp", Undefined, "merge"}

\* The constructor stores the config it is given (calendarSync.ts:8-10).
Config(provider, strategy) ==
    [provider |-> provider, conflictResolution |-> strategy,
     accessToken |-> "token", apiEndpoint |-> "custom-endpoint"]

\* A CalendarEvent.
CalendarEvent(id, title, startTime, endTime, description, sourceCalendar, timestamp) ==
    [id |-> id, title |-> title, startTime |-> startTime, endTime |-> endTime,
     description |-> description, sourceCalendar |-> sourceCalendar,
     timestamp |-> timestamp]

(***************************************************************************)
(* The conflict resolver.                                                  *)
(***************************************************************************)
\* Faulty variant: the timestamp branch keeps the older version.
resolveConflictOldest(cfg, localEvent, remoteEvent) ==
    CASE cfg.conflictResolution = "source" ->
            IF remoteEvent.sourceCalendar # "native" THEN remoteEvent ELSE localEvent
      [] cfg.conflictResolution = "local" -> localEvent
      [] OTHER ->
            IF Gt(remoteEvent.timestamp, localEvent.timestamp)
            THEN localEvent ELSE remoteEvent

\* Faulty variant: the winner is stamped with the loser's timestamp (a merge instead
\* of a selection).
resolveConflictMerged(cfg, localEvent, remoteEvent) ==
    CASE cfg.conflictResolution = "source" ->
            IF remoteEvent.sourceCalendar # "native"
            THEN [remoteEvent EXCEPT !.timestamp = localEvent.timestamp]
            ELSE [localEvent EXCEPT !.timestamp = remoteEvent.timestamp]
      [] cfg.conflictResolution = "local" ->
            [localEvent EXCEPT !.timestamp = remoteEvent.timestamp]
      [] OTHER ->
            IF Gt(localEvent.timestamp, remoteEvent.timestamp)
            THEN [localEvent EXCEPT !.timestamp = remoteEvent.timestamp]
            ELSE [remoteEvent EXCEPT !.timestamp = localEvent.timestamp]

\* Faulty variant: the source branch tests the local version's origin.
resolveConflictLocalSource(cfg, localEvent, remoteEvent) ==
    CASE cfg.conflictResolution = "source" ->
            IF localEvent.sourceCalendar # "native" THEN remoteEvent ELSE localEvent
      [] cfg.conflictResolution = "local" -> localEvent
      [] OTHER ->
            IF Gt(localEvent.timestamp, remoteEvent.timestamp)
            THEN localEvent ELSE remoteEvent

\* Faulty variant: the "local" case falls through to the timestamp comparison.
resolveConflictLocalFallsThrough(cfg, localEvent, remoteEvent) ==
    CASE cfg.conflictResolution = "source" ->
            IF remoteEvent.sourceCalendar # "native" THEN remoteEvent ELSE localEvent
      [] OTHER ->
            IF Gt(localEvent.timestamp, remoteEvent.timestamp)
            THEN localEvent ELSE remoteEvent

\* resolveConflict: the switch on config.conflictResolution.
resolveConflict(cfg, localEvent, remoteEvent) ==
    CASE cfg.conflictResolution = "source" ->
            IF remoteEvent.sourceCalendar # "native" THEN remoteEvent ELSE localEvent
      [] cfg.conflictResolution = "local" -> localEvent
      [] OTHER ->
            IF Gt(localEvent.timestamp, remoteEvent.timestamp)
            THEN localEvent ELSE remoteEvent

(***************************************************************************)
(* The provider adapters: normalizeProviderEvents and                      *)
(* formatEventForProvider.                                                 *)
(*                                                                         *)
(* A date-time string is a record [fmt, inst]: inst is the instant it      *)
(* denotes and fmt the way it is written:                                  *)
(*   "isoMs"   exactly what Date.prototype.toISOString prints,             *)
(*   "offset"  ISO 8601 with a zone offset (same instant, other text),     *)
(*   "date"    a date without a time (an all-day event),                   *)
(*   "garbage" a string Date cannot parse,                                 *)
(*   Undefined the property is absent.                                     *)
(***************************************************************************)
TimeStr(fmt, inst) == [fmt |-> fmt, inst |-> inst]
NoTime == TimeStr(Undefined, NaN)
Instants == 0..MaxInstant

\* new Date(s).getTime(): the instant of a parsable string, NaN otherwise
\* (new Date(undefined) is an Invalid Date).
DateOf(s) == IF s.fmt \in {"isoMs", "offset", "date"} THEN s.inst ELSE NaN

\* Date.prototype.toISOString on a valid date (it throws on an Invalid Date:
\* see Throws below).
toISOString(d) == TimeStr("isoMs", d)

\* a || b on two strings: a unless it is undefined.
OrElse(a, b) == IF a.fmt # Undefined THEN a ELSE b

\* A start / end object of a provider item or payload; present is FALSE
\* when the item has no such object.
TimeObj(dateTime, date, timeZone) ==
    [present |-> TRUE, dateTime |-> dateTime, date |-> date, timeZone |-> timeZone]
NoTimeObj ==
    [present |-> FALSE, dateTime |-> NoTime, date |-> NoTime, timeZone |-> Undefined]

\* The body object of an outlook payload.
Body(content, contentType) ==
    [present |-> TRUE, content |-> content, contentType |-> contentType]
NoBody == [present |-> FALSE, content |-> Undefined, contentType |-> Undefined]

\* A provider object (an item of a fetched batch, or a payload to post) with
\* every property one of the three schemas uses; an absent property is
\* Undefined / NoTime / NoTimeObj / NoBody.
EmptyObject ==
    [id |-> Undefined, uid |-> Undefined, summary |-> Undefined,
     subject |-> Undefined, description |-> Undefined,
     bodyPreview |-> Undefined, body |-> NoBody,
     start |-> NoTimeObj, end |-> NoTimeObj,
     dtstart |-> NoTime, dtend |-> NoTime,
     updated |-> NoTime, lastModified |-> NoTime,
     lastModifiedDateTime |-> NoTime]

\* items.map(item => ...) of the google normalizer, on one item.
normalizeGoogle(item) ==
    CalendarEvent(item.id, item.summary,
                  DateOf(OrElse(item.start.dateTime, item.start.date)),
                  DateOf(OrElse(item.end.dateTime, item.end.date)),
                  item.description, "google", DateOf(item.updated))

\* ... of the apple normalizer.
normalizeApple(item) ==
    CalendarEvent(item.uid, item.summary, DateOf(item.dtstart), DateOf(item.dtend),
                  item.description, "apple", DateOf(item.lastModified))

\* ... of the outlook normalizer.
normalizeOutlook(item) ==
    CalendarEvent(item.id, item.subject,
                  DateOf(item.start.dateTime), DateOf(item.end.dateTime),
                  item.bodyPreview, "outlook", DateOf(item.lastModifiedDateTime))

\* Reading item.start.dateTime or item.end.dateTime throws a TypeError when
\* the item has no start or no end object; the apple normalizer reads only
\* properties of the item itself.
NormalizeThrows(provider, item) ==
    /\ provider \in {"google", "outlook"}
    /\ (~item.start.present \/ ~item.end.present)

normalizeItem(provider, item) ==
    CASE provider = "google" -> normalizeGoogle(item)
      [] provider = "apple" -> normalizeApple(item)
      [] provider = "outlook" -> normalizeOutlook(item)

\* data.items || data.value || data: the array of the response (an array,
\* even an empty one, is truthy).
extractItems(d) ==
    CASE d.wrapper = "items" -> d.list
      [] d.wrapper = "value" -> d.list
      [] OTHER -> d.list

\* normalizeProviderEvents: the provider's normalizer mapped over the items;
\* the first item that throws aborts the map, and an unknown provider
\* yields [].
normalizeProviderEvents(cfg, d) ==
    LET items == extractItems(d) IN
    IF cfg.provider \notin Providers
    THEN [done |-> TRUE, raised |-> FALSE, events |-> <<>>]
    ELSE IF \E i \in 1..Len(items) : NormalizeThrows(cfg.provider, items[i])
    THEN [done |-> TRUE, raised |-> TRUE, events |-> <<>>]
    ELSE [done |-> TRUE, raised |-> FALSE,
          events |-> [i \in 1..Len(items) |-> normalizeItem(cfg.provider, items[i])]]

\* The google formatter.
formatGoogle(e) ==
    [EmptyObject EXCEPT
        !.summary = e.title,
        !.description = e.description,
        !.start = TimeObj(toISOString(e.startTime), NoTime, Undefined),
        !.end = TimeObj(toISOString(e.endTime), NoTime, Undefined)]

\* The apple formatter.
formatApple(e) ==
    [EmptyObject EXCEPT
        !.summary = e.title,
        !.description = e.description,
        !.dtstart = toISOString(e.startTime),
        !.dtend = toISOString(e.endTime)]

\* The outlook formatter.
formatOutlook(e) ==
    [EmptyObject EXCEPT
        !.subject = e.title,
        !.body = Body(e.description, "text"),
        !.start = TimeObj(toISOString(e.startTime), NoTime, "UTC"),
        !.end = TimeObj(toISOString(e.endTime), NoTime, "UTC")]

\* toISOString throws a RangeError on an Invalid Date.
FormatThrows(e) == e.startTime = NaN \/ e.endTime = NaN

\* formatEventForProvider: the provider's formatter applied to the event;
\* an unknown provider has no formatter and the event itself is returned.
formatEventForProvider(cfg, e) ==
    IF cfg.provider \notin Providers
    THEN [raised |-> FALSE, payload |-> e]
    ELSE IF FormatThrows(e)
    THEN [raised |-> TRUE, payload |-> EmptyObject]
    ELSE [raised |-> FALSE,
          payload |-> CASE cfg.provider = "google" -> formatGoogle(e)
                        [] cfg.provider = "apple" -> formatApple(e)
                        [] cfg.provider = "outlook" -> formatOutlook(e)]

\* The versions of the logical event "e1" a conflict can be about.
Timestamps == (0..MaxTimestamp) \cup {NaN}
ConflictEvents ==
    { CalendarEvent("e1", t, 0, 1, Undefined, s, ts) :
        t \in {"mine", "theirs"}, s \in SourceCalendars, ts \in Timestamps }

\* State of the other components while one specification runs.
AdapterIdle ==
    /\ data = [wrapper |-> "none", list |-> <<>>]
    /\ normalized = [done |-> FALSE, raised |-> FALSE, events |-> <<>>]
    /\ formatted = [done |-> FALSE, results |-> <<>>]
ResolverIdle ==
    /\ conflictLocal = <<>> /\ conflictRemote = <<>>
    /\ resolved = <<>> /\ resolvedAgain = <<>>
SyncIdle == calls = <<>> /\ syncInterval = 0 /\ timers = {} /\ nextTimer = 1
FoldIdle ==
    /\ foldLocal = <<>> /\ foldRemotes = {}
    /\ foldArrived = <<>> /\ foldWinner = <<>>
QueueIdle == syncQueue = <<>> /\ nextSeq = 1 /\ deadLetter = <<>>
PushIdle == pushing = <<>> /\ posted = <<>>
ChannelIdle == socket = 0 /\ sockets = <<>> /\ wire = <<>>
InboundIdle == delivered = <<>> /\ logged = 0 /\ nextBatch = 1

\* The ids plugins are registered under.
PluginIds == {"p1", "p2"}

\* No plugin under an id.
NoPlugin == [registered |-> FALSE, enabled |-> FALSE, init |-> FALSE, destroy |-> FALSE]

PluginIdle ==
    /\ plugins = [id \in PluginIds |-> NoPlugin]
    /\ hookLog = [id \in PluginIds |-> <<>>]

\* useCache's defaults for ttl (ms) and maxSize.
DefaultTtl == 300000
DefaultMaxSize == 100

CacheIdle ==
    /\ cache = <<>>
    /\ now = 0
    /\ cacheOptions = [ttl |-> DefaultTtl, maxSize |-> DefaultMaxSize]
    /\ lastEvicted = "none"

ResolveInit ==
    /\ config \in {Config("google", s) : s \in Strategies}
    /\ conflictLocal \in ConflictEvents
    /\ conflictRemote \in ConflictEvents
    /\ resolved = <<>>
    /\ resolvedAgain = <<>>
    /\ AdapterIdle
    /\ SyncIdle
    /\ FoldIdle /\ QueueIdle /\ PushIdle /\ ChannelIdle
    /\ InboundIdle /\ PluginIdle /\ CacheIdle

\* A caller resolves the conflict between its local and the remote version.
ResolveConflict ==
    /\ resolved = <<>>
    /\ resolved' = <<resolveConflict(config, conflictLocal, conflictRemote)>>
    /\ UNCHANGED <<config, conflictLocal, conflictRemote, resolvedAgain>>
    /\ UNCHANGED <<adapterVars, syncVars, foldVars, queueVars, pushVars, channelVars,
                 inboundVars, pluginVars, cacheVars>>

\* The caller resolves the winner against the same remote version again.
ResolveAgain ==
    /\ resolved # <<>>
    /\ resolvedAgain = <<>>
    /\ resolvedAgain' = <<resolveConflict(config, resolved[1], conflictRemote)>>
    /\ UNCHANGED <<config, conflictLocal, conflictRemote, resolved>>
    /\ UNCHANGED <<adapterVars, syncVars, foldVars, queueVars, pushVars, channelVars,
                 inboundVars, pluginVars, cacheVars>>

ResolveNext == ResolveConflict \/ ResolveAgain

ResolveSpec == ResolveInit /\ [][ResolveNext]_vars

(***************************************************************************)
(* Properties of the conflict resolver (checked under ResolveSpec).        *)
(***************************************************************************)
HasResolved == resolved # <<>>
DefaultStrategies == {"timestamp", Undefined, "merge"}

\* C1: under the "timestamp" strategy, when the local and the remote version
\* have equal timestamps, resolveConflict returns the local version.
C1_TieKeepsLocal ==
    ( /\ HasResolved
      /\ config.conflictResolution = "timestamp"
      /\ conflictLocal.timestamp # NaN
      /\ conflictLocal.timestamp = conflictRemote.timestamp )
    => resolved[1] = conflictLocal

\* C2: under "timestamp", and under an absent or unrecognised strategy, the
\* version with the strictly greater timestamp is returned: remote when
\* remote.timestamp > local.timestamp, local when local.timestamp >
\* remote.timestamp.
C2_GreaterTimestampWins ==
    (HasResolved /\ config.conflictResolution \in DefaultStrategies)
    => /\ Gt(conflictRemote.timestamp, conflictLocal.timestamp)
            => resolved[1] = conflictRemote
       /\ Gt(conflictLocal.timestamp, conflictRemote.timestamp)
            => resolved[1] = conflictLocal

\* C2 witness: an absent strategy, a newer remote version that differs from
\* the local one, and the remote version returned.
C2_Witness ==
    /\ HasResolved
    /\ config.conflictResolution = Undefined
    /\ Gt(conflictRemote.timestamp, conflictLocal.timestamp)
    /\ conflictLocal.title # conflictRemote.title
    /\ resolved[1] = conflictRemote

\* C8: resolveConflict is idempotent: resolve(resolve(a, b), b) equals
\* resolve(a, b), for every pair of versions and every strategy.
C8_Idempotent == resolvedAgain # <<>> => resolvedAgain = resolved

\* C8 witness: the second resolution has run on a pair of different versions
\* whose first resolution picked the remote one.
C8_Witness ==
    /\ resolvedAgain # <<>>
    /\ conflictLocal # conflictRemote
    /\ resolved[1] = conflictRemote
    /\ config.conflictResolution = "source"

\* C9: resolveConflict is pure and total: for every pair of versions and
\* every strategy value a resolution returns one of its two arguments (never
\* a new or merged event), and it leaves both arguments, the config and all
\* other service state unchanged.
C9_SelectsAndLeavesUnchanged ==
    [][ /\ (resolved = <<>> /\ resolved' # <<>>)
            => /\ resolved'[1] \in {conflictLocal, conflictRemote}
               /\ UNCHANGED <<config, conflictLocal, conflictRemote,
                              adapterVars, syncVars>>
        /\ (resolvedAgain = <<>> /\ resolvedAgain' # <<>>)
            => /\ resolvedAgain'[1] \in {resolved[1], conflictRemote}
               /\ UNCHANGED <<config, conflictLocal, conflictRemote, resolved,
                              adapterVars, syncVars>>
      ]_vars

\* C9 witness: a resolution under a strategy the switch does not know, on
\* two different versions, has returned the local argument.
C9_Witness ==
    /\ HasResolved
    /\ config.conflictResolution = "merge"
    /\ conflictLocal # conflictRemote
    /\ resolved[1] = conflictLocal

\* C10: under the "source" strategy, when one version is from a non-native
\* provider and the other is native, the non-native version is returned,
\* whichever argument position it is in.
C10_NonNativeWins ==
    (HasResolved /\ config.conflictResolution = "source")
    => /\ ( /\ conflictLocal.sourceCalendar = "native"
            /\ conflictRemote.sourceCalendar # "native" )
            => resolved[1] = conflictRemote
       /\ ( /\ conflictLocal.sourceCalendar # "native"
            /\ conflictRemote.sourceCalendar = "native" )
            => resolved[1] = conflictLocal

\* C10 witness: the non-native version is the local argument, and it is
\* the one returned.
C10_Witness ==
    /\ HasResolved
    /\ config.conflictResolution = "source"
    /\ conflictLocal.sourceCalendar # "native"
    /\ conflictRemote.sourceCalendar = "native"
    /\ resolved[1] = conflictLocal
    /\ resolved[1] # conflictRemote

\* C11: under the "local" strategy the local version is returned for every
\* pair of versions, whatever their timestamps and source calendars.
C11_LocalAlwaysWins ==
    (HasResolved /\ config.conflictResolution = "local")
    => resolved[1] = conflictLocal

\* C11 witness: under "local", a newer non-native remote version that
\* differs from the local one has lost to the local version.
C11_Witness ==
    /\ HasResolved
    /\ config.conflictResolution = "local"
    /\ Gt(conflictRemote.timestamp, conflictLocal.timestamp)
    /\ conflictRemote.sourceCalendar # "native"
    /\ conflictLocal.sourceCalendar = "native"
    /\ resolved[1] = conflictLocal
    /\ resolved[1] # conflictRemote

(***************************************************************************)
(* AdapterSpec: a fetched batch is normalized, then every normalized       *)
(* event is formatted back for the provider.                               *)
(***************************************************************************)
\* The date-time strings a provider may send.
TimeStrs ==
    {TimeStr(f, i) : f \in {"isoMs", "offset"}, i \in Instants}
        \cup {TimeStr("garbage", NaN)}

\* The start / end objects google may send: none, a dateTime, or the date of
\* an all-day event.
GoogleTimeObjs ==
    {NoTimeObj}
        \cup {TimeObj(t, NoTime, Undefined) : t \in TimeStrs}
        \cup {TimeObj(NoTime, TimeStr("date", i), Undefined) : i \in Instants}

\* The start / end objects outlook may send.
OutlookTimeObjs == {NoTimeObj} \cup {TimeObj(t, NoTime, "UTC") : t \in TimeStrs}

Descriptions == {"notes", Undefined}

\* The id of the i-th item of a batch.
IdOf(i) == "e" \o ToString(i)

\* The items a provider may send under one id.
ProviderItems(provider, id) ==
    CASE provider = "google" ->
            { [EmptyObject EXCEPT !.id = id, !.summary = "title", !.description = d,
                                  !.start = s, !.end = e,
                                  !.updated = TimeStr("isoMs", 0)] :
                d \in Descriptions, s \in GoogleTimeObjs, e \in GoogleTimeObjs }
      [] provider = "apple" ->
            { [EmptyObject EXCEPT !.uid = id, !.summary = "title", !.description = d,
                                  !.dtstart = s, !.dtend = e,
                                  !.lastModified = TimeStr("isoMs", 0)] :
                d \in Descriptions, s \in TimeStrs \cup {NoTime},
                e \in TimeStrs \cup {NoTime} }
      [] provider = "outlook" ->
            { [EmptyObject EXCEPT !.id = id, !.subject = "title", !.bodyPreview = d,
                                  !.start = s, !.end = e,
                                  !.lastModifiedDateTime = TimeStr("isoMs", 0)] :
                d \in Descriptions, s \in OutlookTimeObjs, e \in OutlookTimeObjs }

\* A well-formed item: it starts at instant 0 and ends at MaxInstant.
ValidItem(provider, id) ==
    CASE provider = "google" ->
            [EmptyObject EXCEPT !.id = id, !.summary = "title", !.description = "notes",
                !.start = TimeObj(TimeStr("isoMs", 0), NoTime, Undefined),
                !.end = TimeObj(TimeStr("isoMs", MaxInstant), NoTime, Undefined),
                !.updated = TimeStr("isoMs", 0)]
      [] provider = "apple" ->
            [EmptyObject EXCEPT !.uid = id, !.summary = "title", !.description = "notes",
                !.dtstart = TimeStr("isoMs", 0),
                !.dtend = TimeStr("isoMs", MaxInstant),
                !.lastModified = TimeStr("isoMs", 0)]
      [] provider = "outlook" ->
            [EmptyObject EXCEPT !.id = id, !.subject = "title", !.bodyPreview = "notes",
                !.start = TimeObj(TimeStr("isoMs", 0), NoTime, "UTC"),
                !.end = TimeObj(TimeStr("isoMs", MaxInstant), NoTime, "UTC"),
                !.lastModifiedDateTime = TimeStr("isoMs", 0)]

\* The batches a provider may answer with: the empty batch, and every batch
\* of at most MaxBatch items in which one item is any item the provider may
\* send and the others are well-formed.
Batches(provider) ==
    {<<>>} \cup
    UNION { UNION { { [i \in 1..n |-> IF i = k THEN x ELSE ValidItem(provider, IdOf(i))] :
                        x \in ProviderItems(provider, IdOf(k)) } :
                    k \in 1..n } :
            n \in 1..MaxBatch }

\* response.data: the array itself, or an object holding it as items or value.
ResponseData(provider) ==
    { [wrapper |-> w, list |-> b] :
        w \in {"items", "value", "array"}, b \in Batches(provider) }

AdapterInit ==
    /\ config \in {Config(p, "timestamp") : p \in Providers}
    /\ data \in ResponseData(config.provider)
    /\ normalized = [done |-> FALSE, raised |-> FALSE, events |-> <<>>]
    /\ formatted = [done |-> FALSE, results |-> <<>>]
    /\ ResolverIdle
    /\ SyncIdle
    /\ FoldIdle /\ QueueIdle /\ PushIdle /\ ChannelIdle
    /\ InboundIdle /\ PluginIdle /\ CacheIdle

\* normalizeProviderEvents(response.data).
Normalize ==
    /\ ~normalized.done
    /\ normalized' = normalizeProviderEvents(config, data)
    /\ UNCHANGED <<config, data, formatted, resolverVars, syncVars, foldVars, queueVars, pushVars, channelVars,
                 inboundVars, pluginVars, cacheVars>>

\* formatEventForProvider on each event normalization returned.
Format ==
    /\ normalized.done
    /\ ~normalized.raised
    /\ ~formatted.done
    /\ formatted' =
          [done |-> TRUE,
           results |-> [i \in 1..Len(normalized.events) |->
                          formatEventForProvider(config, normalized.events[i])]]
    /\ UNCHANGED <<config, data, normalized, resolverVars, syncVars, foldVars, queueVars, pushVars, channelVars,
                 inboundVars, pluginVars, cacheVars>>

AdapterNext == Normalize \/ Format

AdapterSpec == AdapterInit /\ [][AdapterNext]_vars

(***************************************************************************)
(* Properties of the adapters (checked under AdapterSpec).                 *)
(***************************************************************************)
\* An item that lacks its start or its end.
MissingTimes(provider, item) ==
    IF provider = "apple"
    THEN item.dtstart.fmt = Undefined \/ item.dtend.fmt = Undefined
    ELSE ~item.start.present \/ ~item.end.present

\* The subsequence of the items that have a start and an end, normalized.
ValidSubset(provider, items) ==
    LET Valid(x) == ~MissingTimes(provider, x)
        kept == SelectSeq(items, Valid)
    IN [i \in 1..Len(kept) |-> normalizeItem(provider, kept[i])]

\* C5: normalizing a fetched batch never raises: a malformed item (one
\* lacking its start or end) is skipped and every valid item of the batch
\* is still returned.
C5_NormalizeSkipsMalformed ==
    normalized.done
    => /\ ~normalized.raised
       /\ normalized.events = ValidSubset(config.provider, extractItems(data))

\* C6: every event normalization returns satisfies endTime >= startTime; an
\* item whose end is before its start is not returned.
C6_EndNotBeforeStart ==
    (normalized.done /\ ~normalized.raised)
    => \A i \in 1..Len(normalized.events) :
          Ge(normalized.events[i].endTime, normalized.events[i].startTime)

\* Two date-time strings of one property denote the same instant (or the
\* property is absent in both).
SameTime(a, b) ==
    /\ (a.fmt = Undefined) <=> (b.fmt = Undefined)
    /\ DateOf(a) = DateOf(b)

\* Payload y carries item x's title, start, end and description in the
\* provider fields the normalizer read them from.
Reproduces(provider, x, y) ==
    CASE provider = "google" ->
            /\ y.summary = x.summary
            /\ y.description = x.description
            /\ SameTime(y.start.dateTime, x.start.dateTime)
            /\ SameTime(y.start.date, x.start.date)
            /\ SameTime(y.end.dateTime, x.end.dateTime)
            /\ SameTime(y.end.date, x.end.date)
      [] provider = "apple" ->
            /\ y.summary = x.summary
            /\ y.description = x.description
            /\ SameTime(y.dtstart, x.dtstart)
            /\ SameTime(y.dtend, x.dtend)
      [] provider = "outlook" ->
            /\ y.subject = x.subject
            /\ y.bodyPreview = x.bodyPreview
            /\ SameTime(y.start.dateTime, x.start.dateTime)
            /\ SameTime(y.end.dateTime, x.end.dateTime)

\* C7: for each adapter and every provider item x, denormalize(normalize(x))
\* reproduces x's title, start time, end time and description in the same
\* provider fields they were read from.
C7_RoundTrip ==
    formatted.done
    => \A i \in 1..Len(formatted.results) :
          /\ ~formatted.results[i].raised
          /\ Reproduces(config.provider, extractItems(data)[i],
                        formatted.results[i].payload)

(***************************************************************************)
(* SyncSpec: the pull / poll lifecycle of CalendarSyncService.             *)
(*                                                                         *)
(* Every call that reaches fetchRemoteEvents (an initializeSync call or a  *)
(* poll tick) is a record of calls:                                        *)
(*   origin     "init" or "poll",                                          *)
(*   pc         "get"      awaiting the answer to axios.get,               *)
(*              "refresh"  awaiting refreshAccessToken,                    *)
(*              "resolved" fetchRemoteEvents returned events,              *)
(*              "rejected" fetchRemoteEvents threw,                        *)
(*   reads      the axios.get requests the call has issued,                *)
(*   refreshes  the refreshAccessToken calls it has made,                  *)
(*   token      the access token its latest read was sent with,            *)
(*   error      what it threw: "none", "network" or "type",                *)
(*   thrown     whether the error reached the caller (initializeSync       *)
(*              rethrows, the tick's callback only logs),                  *)
(*   data       the response data of its successful read,                  *)
(*   events     the events it returned,                                    *)
(*   stopped    whether stopSync() ran while the call was in flight.       *)
(* Each action is one run of the event loop between two awaits.            *)
(***************************************************************************)
\* startPolling's default period.
DefaultIntervalMs == 30000

NoData == [wrapper |-> "none", list |-> <<>>]

NewCall(origin) ==
    [origin |-> origin, pc |-> "get", reads |-> 1, refreshes |-> 0,
     token |-> config.accessToken,
     error |-> "none", thrown |-> FALSE, data |-> NoData, events |-> <<>>,
     stopped |-> FALSE]

InFlight(c) == c.pc \in {"get", "refresh"}

\* The 401 answers given so far: each one led to one refresh.
RECURSIVE Unauthorized(_)
Unauthorized(cs) ==
    IF cs = <<>> THEN 0 ELSE Head(cs).refreshes + Unauthorized(Tail(cs))

\* An item without its start object.
ItemWithoutStart(provider, id) ==
    [ValidItem(provider, id) EXCEPT !.start = NoTimeObj, !.dtstart = NoTime]

\* What the provider may answer a read with on success: one well-formed
\* item, or one item lacking its start.
SyncResponses(provider) ==
    { [wrapper |-> "items", list |-> b] :
        b \in { <<ValidItem(provider, IdOf(1))>>,
                <<ItemWithoutStart(provider, IdOf(1))>> } }

SyncInit ==
    /\ config = Config("google", "timestamp")
    /\ calls = <<>>
    /\ syncInterval = 0
    /\ timers = {}
    /\ nextTimer = 1
    /\ ResolverIdle
    /\ AdapterIdle
    /\ FoldIdle /\ QueueIdle /\ PushIdle /\ ChannelIdle
    /\ InboundIdle /\ PluginIdle /\ CacheIdle

\* clearInterval(id): the timer with that id is no longer armed.
clearInterval(armed, id) == {t \in armed : t.id # id}

\* Faulty variant: the new timer is armed without clearing the old one.
startPollingLeaks(intervalMs) ==
    /\ timers' = timers \cup {[id |-> nextTimer, intervalMs |-> intervalMs]}
    /\ syncInterval' = nextTimer
    /\ nextTimer' = nextTimer + 1

\* startPolling: clears the timer syncInterval holds, then arms a new one
\* of the given period and stores its id.
startPolling(intervalMs) ==
    /\ timers' = (IF syncInterval # 0 THEN clearInterval(timers, syncInterval) ELSE timers)
                    \cup {[id |-> nextTimer, intervalMs |-> intervalMs]}
    /\ syncInterval' = nextTimer
    /\ nextTimer' = nextTimer + 1

\* initializeSync() is called: it runs up to the await of axios.get.
InitializeSync ==
    /\ Len(calls) < MaxCalls
    /\ calls' = Append(calls, NewCall("init"))
    /\ UNCHANGED <<config, syncInterval, timers, nextTimer>>
    /\ UNCHANGED <<resolverVars, adapterVars, foldVars, queueVars, pushVars, channelVars,
                 inboundVars, pluginVars, cacheVars>>

\* Faulty variant: a tick is skipped while an earlier tick's fetch is pending.
PollTickChained ==
    /\ timers # {}
    /\ \A i \in DOMAIN calls : ~(calls[i].origin = "poll" /\ InFlight(calls[i]))
    /\ Len(calls) < MaxCalls
    /\ calls' = Append(calls, NewCall("poll"))
    /\ UNCHANGED <<config, syncInterval, timers, nextTimer>>
    /\ UNCHANGED <<resolverVars, adapterVars, foldVars, queueVars, pushVars, channelVars,
                 inboundVars, pluginVars, cacheVars>>

\* An armed timer fires: the tick's callback runs up to the await of
\* axios.get, whatever earlier calls are still doing.
PollTick ==
    /\ timers # {}
    /\ Len(calls) < MaxCalls
    /\ calls' = Append(calls, NewCall("poll"))
    /\ UNCHANGED <<config, syncInterval, timers, nextTimer>>
    /\ UNCHANGED <<resolverVars, adapterVars, foldVars, queueVars, pushVars, channelVars,
                 inboundVars, pluginVars, cacheVars>>

\* Faulty variant: initializeSync returns the events without starting to poll.
Respond200NoPolling(i) ==
    /\ calls[i].pc = "get"
    /\ \E d \in SyncResponses(config.provider) :
          LET r == normalizeProviderEvents(config, d) IN
          IF r.raised
          THEN calls' = [calls EXCEPT ![i].pc = "rejected", ![i].error = "type",
                                      ![i].thrown = (calls[i].origin = "init"),
                                      ![i].data = d]
          ELSE calls' = [calls EXCEPT ![i].pc = "resolved", ![i].data = d,
                                      ![i].events = r.events]
    /\ UNCHANGED <<config, syncInterval, timers, nextTimer>>
    /\ UNCHANGED <<resolverVars, adapterVars, foldVars, queueVars, pushVars, channelVars,
                 inboundVars, pluginVars, cacheVars>>

\* The provider answers call i's read with 200: the data is normalized; a
\* TypeError of the normalizer is rethrown by the catch block; on success
\* initializeSync goes on to startPolling, a tick drops the events.
Respond200(i) ==
    /\ calls[i].pc = "get"
    /\ \E d \in SyncResponses(config.provider) :
          LET r == normalizeProviderEvents(config, d) IN
          IF r.raised
          THEN /\ calls' = [calls EXCEPT ![i].pc = "rejected", ![i].error = "type",
                                         ![i].thrown = (calls[i].origin = "init"),
                                         ![i].data = d]
               /\ UNCHANGED <<syncInterval, timers, nextTimer>>
          ELSE /\ calls' = [calls EXCEPT ![i].pc = "resolved", ![i].data = d,
                                         ![i].events = r.events]
               /\ IF calls[i].origin = "init"
                  THEN startPolling(DefaultIntervalMs)
                  ELSE UNCHANGED <<syncInterval, timers, nextTimer>>
    /\ UNCHANGED <<config, resolverVars, adapterVars, foldVars, queueVars, pushVars, channelVars,
                 inboundVars, pluginVars, cacheVars>>

\* The provider answers call i's read with 401: the catch block calls
\* refreshAccessToken and awaits it.
Respond401(i) ==
    /\ calls[i].pc = "get"
    /\ Unauthorized(calls) < MaxUnauthorized
    /\ calls' = [calls EXCEPT ![i].pc = "refresh",
                              ![i].refreshes = calls[i].refreshes + 1]
    /\ UNCHANGED <<config, syncInterval, timers, nextTimer>>
    /\ UNCHANGED <<resolverVars, adapterVars, foldVars, queueVars, pushVars, channelVars,
                 inboundVars, pluginVars, cacheVars>>

\* Faulty variant: initializeSync starts to poll although its pull failed.
RespondErrorPollsAnyway(i) ==
    /\ calls[i].pc = "get"
    /\ calls' = [calls EXCEPT ![i].pc = "rejected", ![i].error = "network",
                              ![i].thrown = (calls[i].origin = "init")]
    /\ IF calls[i].origin = "init"
       THEN startPolling(DefaultIntervalMs)
       ELSE UNCHANGED <<syncInterval, timers, nextTimer>>
    /\ UNCHANGED <<config, resolverVars, adapterVars, foldVars, queueVars, pushVars, channelVars,
                 inboundVars, pluginVars, cacheVars>>

\* Faulty variant: a failed read makes the service give up polling.
RespondErrorStopsPolling(i) ==
    /\ calls[i].pc = "get"
    /\ calls' = [calls EXCEPT ![i].pc = "rejected", ![i].error = "network",
                              ![i].thrown = (calls[i].origin = "init")]
    /\ timers' = clearInterval(timers, syncInterval)
    /\ syncInterval' = 0
    /\ UNCHANGED <<config, nextTimer>>
    /\ UNCHANGED <<resolverVars, adapterVars, foldVars, queueVars, pushVars, channelVars,
                 inboundVars, pluginVars, cacheVars>>

\* Call i's read fails otherwise (a network error, another status): the
\* catch block rethrows; initializeSync logs and rethrows, a tick logs.
RespondError(i) ==
    /\ calls[i].pc = "get"
    /\ calls' = [calls EXCEPT ![i].pc = "rejected", ![i].error = "network",
                              ![i].thrown = (calls[i].origin = "init")]
    /\ UNCHANGED <<config, syncInterval, timers, nextTimer>>
    /\ UNCHANGED <<resolverVars, adapterVars, foldVars, queueVars, pushVars, channelVars,
                 inboundVars, pluginVars, cacheVars>>

\* refreshAccessToken (a placeholder that only logs) has resolved: the catch
\* block calls fetchRemoteEvents again, which issues the next read.
RefreshDone(i) ==
    /\ calls[i].pc = "refresh"
    /\ calls' = [calls EXCEPT ![i].pc = "get", ![i].reads = calls[i].reads + 1,
                              ![i].token = config.accessToken]
    /\ UNCHANGED <<config, syncInterval, timers, nextTimer>>
    /\ UNCHANGED <<resolverVars, adapterVars, foldVars, queueVars, pushVars, channelVars,
                 inboundVars, pluginVars, cacheVars>>

\* The calls as stopSync() leaves them: those in flight are marked.
MarkStopped(cs) ==
    [i \in DOMAIN cs |-> IF InFlight(cs[i]) THEN [cs[i] EXCEPT !.stopped = TRUE] ELSE cs[i]]

\* Faulty variant: stopSync forgets the handle without clearing the timer.
StopSyncKeepsTimer ==
    /\ syncInterval' = 0
    /\ calls' = MarkStopped(calls)
    /\ UNCHANGED <<config, timers, nextTimer>>
    /\ UNCHANGED <<resolverVars, adapterVars, foldVars, queueVars, pushVars, channelVars,
                 inboundVars, pluginVars, cacheVars>>

\* stopSync(): clears the timer syncInterval holds, if any.
StopSync ==
    /\ IF syncInterval # 0
       THEN /\ timers' = clearInterval(timers, syncInterval)
            /\ syncInterval' = 0
       ELSE UNCHANGED <<syncInterval, timers>>
    /\ calls' = MarkStopped(calls)
    /\ UNCHANGED <<config, nextTimer>>
    /\ UNCHANGED <<resolverVars, adapterVars, foldVars, queueVars, pushVars, channelVars,
                 inboundVars, pluginVars, cacheVars>>

SyncNext ==
    \/ InitializeSync
    \/ PollTick
    \/ StopSync
    \/ \E i \in DOMAIN calls : Respond200(i)
    \/ \E i \in DOMAIN calls : Respond401(i)
    \/ \E i \in DOMAIN calls : RespondError(i)
    \/ \E i \in DOMAIN calls : RefreshDone(i)

SyncSpec == SyncInit /\ [][SyncNext]_vars

(***************************************************************************)
(* Properties of the pull path (checked under SyncSpec).                   *)
(***************************************************************************)
\* C3: one call to fetchRemoteEvents never performs more than one token
\* refresh nor more than two reads, whatever the provider answers.
C3_OneRefreshOneRetry ==
    \A i \in DOMAIN calls : calls[i].refreshes <= 1 /\ calls[i].reads <= 2

\* C4: every call to fetchRemoteEvents terminates, even when every read is
\* answered 401: the answer to the read retried after a refresh ends the
\* call (it returns, or an error propagates) instead of refreshing and
\* reading again.
C4_RetriedReadEndsCall ==
    [][ \A i \in DOMAIN calls :
            ( /\ calls[i].pc = "get"
              /\ calls[i].refreshes >= 1
              /\ calls'[i].pc # "get" )
            => calls'[i].pc \in {"resolved", "rejected"} ]_vars

(***************************************************************************)
(* Properties of the poll lifecycle (checked under SyncSpec).              *)
(***************************************************************************)
NoInitInFlight ==
    \A i \in DOMAIN calls : ~(calls[i].origin = "init" /\ InFlight(calls[i]))

\* A step in which a tick starts a fetch.
TickStartsFetch ==
    /\ Len(calls') = Len(calls) + 1
    /\ calls'[Len(calls')].origin = "poll"

\* What the service itself holds.
serviceState == <<config, syncInterval, timers, nextTimer>>

\* C13: with no initializeSync call in flight, stopSync() cancels the poll
\* timer at once: after it the service holds no timer and none is armed, it
\* stays so, hence no tick starts a fetch; with no timer running stopSync()
\* changes nothing of the service.
C13_StopCancelsTimer ==
    [][ /\ (NoInitInFlight /\ StopSync) => (syncInterval' = 0 /\ timers' = {})
        /\ (NoInitInFlight /\ StopSync /\ syncInterval = 0) =>
              /\ UNCHANGED serviceState
              /\ \A i \in DOMAIN calls : calls'[i].pc = calls[i].pc
        /\ (NoInitInFlight /\ syncInterval = 0 /\ timers = {}) =>
              (syncInterval' = 0 /\ timers' = {})
        /\ TickStartsFetch => timers # {} ]_vars

\* stopSync() has cancelled a timer that initializeSync armed and that had
\* fired before.
C13_Witness ==
    /\ NoInitInFlight
    /\ syncInterval = 0 /\ timers = {} /\ nextTimer > 1
    /\ \E i \in DOMAIN calls : calls[i].origin = "poll"

\* C14: the completion of a fetch that was in flight when stopSync() ran is
\* discarded: it changes no sync state and no poll timer runs after it.
C14_StoppedFetchDiscarded ==
    [][ \A i \in DOMAIN calls :
            ( /\ calls[i].stopped
              /\ InFlight(calls[i])
              /\ ~InFlight(calls'[i]) )
            => UNCHANGED <<syncInterval, timers>> ]_vars

\* C15: when initializeSync resolves, one full pull has been done and its
\* normalized events are what it returned, and the periodic poll of the
\* default period is armed; the poll then stays armed until stopSync().
C15_InitLeavesPollRunning ==
    [][ /\ \A i \in DOMAIN calls :
              ( /\ calls[i].origin = "init"
                /\ calls[i].pc = "get"
                /\ calls'[i].pc = "resolved" )
              => /\ calls'[i].reads >= 1
                 /\ calls'[i].data \in SyncResponses(config.provider)
                 /\ ~normalizeProviderEvents(config, calls'[i].data).raised
                 /\ calls'[i].events = normalizeProviderEvents(config, calls'[i].data).events
                 /\ syncInterval' # 0
                 /\ [id |-> syncInterval', intervalMs |-> DefaultIntervalMs] \in timers'
        /\ (syncInterval # 0 /\ syncInterval \in {t.id : t \in timers} /\ ~StopSync)
              => (syncInterval' # 0 /\ syncInterval' \in {t.id : t \in timers'}) ]_vars

\* initializeSync has resolved with events and a tick of the poll it left
\* running has started a fetch, with no realtime channel open.
C15_Witness ==
    /\ \E i \in DOMAIN calls :
          /\ calls[i].origin = "init" /\ calls[i].pc = "resolved"
          /\ calls[i].events # <<>>
    /\ \E i \in DOMAIN calls : calls[i].origin = "poll"
    /\ syncInterval # 0 /\ timers # {}
    /\ socket = 0

\* C16: a tick fires on schedule, even when an earlier tick's fetch has not
\* completed: while a timer is armed the next tick can always start.
C16_TicksOverlap ==
    (timers # {} /\ Len(calls) < MaxCalls) => ENABLED PollTick

\* Two ticks' fetches are in flight at once.
C16_Witness ==
    \E i, j \in DOMAIN calls :
        /\ i < j
        /\ calls[i].origin = "poll" /\ InFlight(calls[i])
        /\ calls[j].origin = "poll" /\ InFlight(calls[j])

\* C17: a tick whose fetch fails with a network error issues no further
\* request, its error reaches nobody, and the timer stays armed; a finished
\* call never reads again, so the next fetch is the next tick's.
C17_FailedTickKeepsTimer ==
    [][ \A i \in DOMAIN calls :
          /\ ( /\ calls[i].origin = "poll"
               /\ calls[i].pc = "get"
               /\ calls'[i].pc = "rejected"
               /\ calls'[i].error = "network" )
             => /\ calls'[i].reads = calls[i].reads
                /\ ~calls'[i].thrown
                /\ Len(calls') = Len(calls)
                /\ UNCHANGED <<syncInterval, timers>>
          /\ calls[i].pc = "rejected" => calls'[i] = calls[i] ]_vars

\* A tick's fetch failed with a network error and a later tick fetched.
C17_Witness ==
    \E i, j \in DOMAIN calls :
        /\ i < j
        /\ calls[i].origin = "poll" /\ calls[i].pc = "rejected"
        /\ calls[i].error = "network"
        /\ calls[j].origin = "poll"
        /\ timers # {}

\* C25: a token refresh replaces the config as a whole by one carrying a
\* new access token, and the read retried after the refresh is sent with
\* it: the step that ends a refresh leaves a config that differs from the
\* old one in its access token only, and the retried read carries that new
\* token, not the one the provider answered 401 to.
C25_RetryUsesRefreshedToken ==
    [][ \A i \in DOMAIN calls :
            (calls[i].pc = "refresh" /\ calls'[i].pc = "get")
               => /\ calls'[i].token # calls[i].token
                  /\ calls'[i].token = config'.accessToken
                  /\ config' = [config EXCEPT !.accessToken = config'.accessToken] ]_vars

\* C26: whatever the interleaving of initializeSync calls, ticks and
\* stopSync calls, at most one timer is armed and it is the one syncInterval
\* records: no timer runs without a handle to cancel it.
C26_OneTimerWithHandle ==
    /\ Cardinality(timers) <= 1
    /\ \A t \in timers : syncInterval # 0 /\ t.id = syncInterval

\* Two overlapping initializeSync calls have both resolved.
C26_Witness ==
    /\ \E i, j \in DOMAIN calls :
          /\ i < j
          /\ calls[i].origin = "init" /\ calls[i].pc = "resolved"
          /\ calls[j].origin = "init" /\ calls[j].pc = "resolved"
    /\ nextTimer > 2
    /\ timers # {}

FoldLocals ==
    { CalendarEvent("e1", "mine", 0, 1, Undefined, s, ts) :
        s \in {"native", "google"}, ts \in 0..MaxTimestamp }

\* The remote versions a source may hold.
FoldRemoteVersions ==
    { CalendarEvent("e1", "theirs", 0, 1, Undefined, s, ts) :
        s \in {"native", "google", "apple"}, ts \in 0..MaxTimestamp }

\* The reduction of a sequence of remote versions, starting from local.
RECURSIVE FoldOver(_, _, _)
FoldOver(cfg, local, remotes) ==
    IF remotes = <<>>
    THEN local
    ELSE FoldOver(cfg, resolveConflict(cfg, local, Head(remotes)), Tail(remotes))

\* The orders in which the versions of a set can arrive.
Orders(S) ==
    { s \in [1..Cardinality(S) -> S] : \A i, j \in DOMAIN s : s[i] = s[j] => i = j }

FoldInit ==
    /\ config \in {Config("google", s) : s \in Strategies}
    /\ foldLocal \in FoldLocals
    /\ foldRemotes \in { S \in SUBSET FoldRemoteVersions :
                            Cardinality(S) \in 1..MaxRemotes }
    /\ foldArrived = <<>>
    /\ foldWinner = foldLocal
    /\ ResolverIdle /\ AdapterIdle /\ SyncIdle
    /\ QueueIdle /\ PushIdle /\ ChannelIdle
    /\ InboundIdle /\ PluginIdle /\ CacheIdle

\* The next remote version arrives and is resolved against the version
\* kept so far.
RemoteArrives ==
    /\ \E r \in foldRemotes :
          /\ \A i \in DOMAIN foldArrived : foldArrived[i] # r
          /\ foldWinner' = resolveConflict(config, foldWinner, r)
          /\ foldArrived' = Append(foldArrived, r)
    /\ UNCHANGED <<config, foldLocal, foldRemotes>>
    /\ UNCHANGED <<resolverVars, adapterVars, syncVars, queueVars, pushVars, channelVars,
                 inboundVars, pluginVars, cacheVars>>

FoldNext == RemoteArrives

FoldSpec == FoldInit /\ [][FoldNext]_vars

\* C12: for a local event and any set of remote versions of the same id,
\* reducing them pairwise with resolveConflict selects the same winner for
\* every order in which the remote versions arrive, under each strategy.
C12_ArrivalOrderIrrelevant ==
    Len(foldArrived) = Cardinality(foldRemotes)
    => \A s \in Orders(foldRemotes) : FoldOver(config, foldLocal, s) = foldWinner

(***************************************************************************)
(* PushSpec: the provider path of the Sync Queue.  Local mutations are     *)
(* queued in sequence order; the queue hands its oldest operation to       *)
(* pushEvent and removes it only when pushEvent resolves.                  *)
(***************************************************************************)
\* The events a local mutation may carry: a well-formed one and one whose
\* start is an Invalid Date.
LocalEvents ==
    { CalendarEvent("e1", "mine", st, 1, Undefined, "native", 0) : st \in {0, NaN} }

\* A SyncOperation as the queue holds it.
SyncOperation(seq, event) == [seq |-> seq, event |-> event, attempts |-> 0]

\* getProviderEndpoint: the endpoint of a known provider, config.apiEndpoint
\* otherwise.
getProviderEndpoint(cfg) ==
    CASE cfg.provider = "google" -> "https://www.googleapis.com/calendar/v3/calendars/primary/events"
      [] cfg.provider = "apple" -> "https://caldav.icloud.com"
      [] cfg.provider = "outlook" -> "https://graph.microsoft.com/v1.0/me/calendar/events"
      [] OTHER -> cfg.apiEndpoint

\* Faulty variant: the catch block logs the failure and does not rethrow.
pushEventSwallows(cfg, event, answer) ==
    LET f == formatEventForProvider(cfg, event)
        request == [endpoint |-> getProviderEndpoint(cfg), payload |-> f.payload] IN
    IF f.raised
    THEN [settled |-> "rejected", delivered |-> FALSE, request |-> request]
    ELSE [settled |-> "resolved", delivered |-> (answer = "ok"), request |-> request]

\* pushEvent: formats the event and posts it; the promise it returns
\* resolves when the post succeeds and rejects when the formatter throws or
\* the post fails (the catch block logs and rethrows).
pushEvent(cfg, event, answer) ==
    LET f == formatEventForProvider(cfg, event)
        request == [endpoint |-> getProviderEndpoint(cfg), payload |-> f.payload] IN
    IF f.raised
    THEN [settled |-> "rejected", delivered |-> FALSE, request |-> request]
    ELSE IF answer = "ok"
    THEN [settled |-> "resolved", delivered |-> TRUE, request |-> request]
    ELSE [settled |-> "rejected", delivered |-> FALSE, request |-> request]

PushInit ==
    /\ config \in {Config(p, "timestamp") : p \in {"google", "outlook"}}
    /\ QueueIdle
    /\ pushing = <<>>
    /\ posted = <<>>
    /\ ResolverIdle /\ AdapterIdle /\ SyncIdle /\ FoldIdle /\ ChannelIdle
    /\ InboundIdle /\ PluginIdle /\ CacheIdle

\* A local mutation: its operation joins the queue with the next sequence
\* number.
Enqueue ==
    /\ nextSeq <= MaxOps
    /\ \E e \in LocalEvents :
          syncQueue' = Append(syncQueue, SyncOperation(nextSeq, e))
    /\ nextSeq' = nextSeq + 1
    /\ UNCHANGED <<config, deadLetter, pushVars>>
    /\ UNCHANGED <<resolverVars, adapterVars, syncVars, foldVars, channelVars,
                 inboundVars, pluginVars, cacheVars>>

\* The queue hands its oldest operation to pushEvent.
PushStart ==
    /\ syncQueue # <<>>
    /\ pushing = <<>>
    /\ pushing' = <<Head(syncQueue).seq>>
    /\ UNCHANGED <<config, queueVars, posted>>
    /\ UNCHANGED <<resolverVars, adapterVars, syncVars, foldVars, channelVars,
                 inboundVars, pluginVars, cacheVars>>

\* The retries one operation is given.
RetryLimit == 5

\* pushEvent settles: resolved, the operation leaves the queue; rejected, it
\* is returned to the queue for a later attempt, or, its retries used up,
\* moved to the dead letters and reported.
PushSettle ==
    /\ pushing # <<>>
    /\ \E answer \in {"ok", "error"} :
          LET op == Head(syncQueue)
              r  == pushEvent(config, op.event, answer)
              failed == [op EXCEPT !.attempts = op.attempts + 1] IN
          /\ posted' = IF r.delivered
                       THEN Append(posted, [seq |-> op.seq, event |-> op.event,
                                            endpoint |-> r.request.endpoint,
                                            payload |-> r.request.payload,
                                            attempts |-> op.attempts])
                       ELSE posted
          /\ syncQueue' = IF r.settled = "rejected" /\ failed.attempts <= RetryLimit
                          THEN <<failed>> \o Tail(syncQueue)
                          ELSE Tail(syncQueue)
          /\ deadLetter' = IF r.settled = "rejected" /\ failed.attempts > RetryLimit
                           THEN Append(deadLetter, failed)
                           ELSE deadLetter
    /\ pushing' = <<>>
    /\ UNCHANGED <<config, nextSeq>>
    /\ UNCHANGED <<resolverVars, adapterVars, syncVars, foldVars, channelVars,
                 inboundVars, pluginVars, cacheVars>>

PushNext ==
    \/ Enqueue
    \/ PushStart
    \/ PushSettle

PushSpec == PushInit /\ [][PushNext]_vars

HasSeq(sq, x) == \E k \in DOMAIN sq : sq[k].seq = x

CustomInit ==
    /\ config = Config("custom", "timestamp")
    /\ data \in SyncResponses("google")
    /\ normalized = [done |-> FALSE, raised |-> FALSE, events |-> <<>>]
    /\ formatted = [done |-> FALSE, results |-> <<>>]
    /\ QueueIdle /\ PushIdle
    /\ ResolverIdle /\ SyncIdle /\ FoldIdle /\ ChannelIdle
    /\ InboundIdle /\ PluginIdle /\ CacheIdle

CustomNext ==
    \/ Normalize
    \/ Enqueue
    \/ PushStart
    \/ PushSettle

CustomSpec == CustomInit /\ [][CustomNext]_vars

\* C24: with a provider the service does not know, the endpoint is
\* config.apiEndpoint and nothing is transformed: what is posted is the
\* event itself, and a pull returns the fetched items as they are, without
\* failing.
C24_UnknownProviderPassThrough ==
    /\ \A k \in DOMAIN posted :
          /\ posted[k].endpoint = config.apiEndpoint
          /\ posted[k].payload = posted[k].event
    /\ normalized.done =>
          /\ ~normalized.raised
          /\ normalized.events = extractItems(data)

(***************************************************************************)
(* ChannelSpec: the realtime path of the Sync Queue, through               *)
(* RealtimeSyncService (src/src/services/realtimeSync.ts).                 *)
(*                                                                         *)
(* A socket made by io() is a record of sockets:                           *)
(*   state       "connecting" (io() connects by itself and, after a drop   *)
(*               of the transport, reconnects by itself), "connected", or  *)
(*               "closed" (after socket.disconnect()), or "rejected" (the  *)
(*               server denied the connection; the socket does not try     *)
(*               again by itself),                                         *)
(*   sendBuffer  what was emitted while the socket was not connected; the  *)
(*               socket sends it when it next connects,                    *)
(*   token       the access token the socket authenticates with.           *)
(* Operations are named by their sequence numbers.                         *)
(***************************************************************************)
\* this.token: set by the constructor, never assigned again.
ChannelToken == "token"

NewSocket == [state |-> "connecting", sendBuffer |-> <<>>, token |-> ChannelToken]

\* The sequence numbers of a batch of operations.
SeqsOf(ops) == [k \in DOMAIN ops |-> ops[k].seq]

\* socket.emit('operations', ops) on socket i: sent if the socket is
\* connected, buffered otherwise.
emit(socks, w, i, ops) ==
    IF socks[i].state = "connected"
    THEN [sockets |-> socks, wire |-> w \o SeqsOf(ops)]
    ELSE [sockets |-> [socks EXCEPT ![i].sendBuffer = @ \o SeqsOf(ops)], wire |-> w]

\* sendOperations: emits on this.socket if there is one; does nothing, and
\* reports nothing, otherwise.
sendOperations(sock, socks, w, ops) ==
    IF sock # 0
    THEN emit(socks, w, sock, ops)
    ELSE [sockets |-> socks, wire |-> w]

ChannelInit ==
    /\ config = Config("google", "timestamp")
    /\ socket = 0
    /\ sockets = <<>>
    /\ wire = <<>>
    /\ QueueIdle
    /\ ResolverIdle /\ AdapterIdle /\ SyncIdle /\ FoldIdle /\ PushIdle
    /\ InboundIdle /\ PluginIdle /\ CacheIdle

\* connect(callback): a new socket is made and stored in this.socket; the
\* socket this.socket held before is left as it is.
Connect ==
    /\ Len(sockets) < MaxSockets
    /\ sockets' = Append(sockets, NewSocket)
    /\ socket' = Len(sockets) + 1
    /\ UNCHANGED <<config, wire, queueVars>>
    /\ UNCHANGED <<resolverVars, adapterVars, syncVars, foldVars, pushVars,
                 inboundVars, pluginVars, cacheVars>>

\* disconnect(): closes the socket this.socket holds, if any, and forgets it.
Disconnect ==
    /\ IF socket # 0
       THEN /\ sockets' = [sockets EXCEPT ![socket].state = "closed"]
            /\ socket' = 0
       ELSE UNCHANGED <<socket, sockets>>
    /\ UNCHANGED <<config, wire, queueVars>>
    /\ UNCHANGED <<resolverVars, adapterVars, syncVars, foldVars, pushVars,
                 inboundVars, pluginVars, cacheVars>>

\* The server accepts socket i: it is connected and sends what it buffered.
ServerAccepts(i) ==
    /\ sockets[i].state = "connecting"
    /\ wire' = wire \o sockets[i].sendBuffer
    /\ sockets' = [sockets EXCEPT ![i].state = "connected", ![i].sendBuffer = <<>>]
    /\ UNCHANGED <<config, socket, queueVars>>
    /\ UNCHANGED <<resolverVars, adapterVars, syncVars, foldVars, pushVars,
                 inboundVars, pluginVars, cacheVars>>

\* The server rejects the token of socket i: the socket is not connected
\* and stays so; the service is not told (it listens to no connection
\* event) and keeps the socket in this.socket.
ServerRejects(i) ==
    /\ sockets[i].state = "connecting"
    /\ sockets' = [sockets EXCEPT ![i].state = "rejected"]
    /\ UNCHANGED <<config, socket, wire, queueVars>>
    /\ UNCHANGED <<resolverVars, adapterVars, syncVars, foldVars, pushVars,
                 inboundVars, pluginVars, cacheVars>>

\* The events the server emits: operations, and the presence / cursor ones.
AdvisoryEvents == {"cursorUpdate", "userJoined", "userLeft"}
InboundEvents == {"operations"} \cup AdvisoryEvents

\* Faulty variant: a user joining is treated as a batch of operations.
onInboundMerges(kind) ==
    [callback |-> kind \in {"operations", "userJoined"}, log |-> kind \in AdvisoryEvents]

\* The handlers connect() registers: 'operations' calls the callback, the
\* other three only write to the console.
onInbound(kind) ==
    [callback |-> kind = "operations", log |-> kind \in AdvisoryEvents]

\* The sockets that are connected.
Connected(socks) == {i \in DOMAIN socks : socks[i].state = "connected"}

\* n copies of x.
Copies(n, x) == [k \in 1..n |-> x]

\* The server emits an event to the client: the handler of every connected
\* socket runs.
ServerEmits(kind) ==
    /\ nextBatch <= MaxInbound
    /\ Connected(sockets) # {}
    /\ LET n == Cardinality(Connected(sockets))
           h == onInbound(kind) IN
          /\ delivered' = IF h.callback THEN delivered \o Copies(n, nextBatch) ELSE delivered
          /\ logged' = IF h.log THEN logged + n ELSE logged
    /\ nextBatch' = nextBatch + 1
    /\ UNCHANGED <<config, channelVars, queueVars>>
    /\ UNCHANGED <<resolverVars, adapterVars, syncVars, foldVars, pushVars,
                 pluginVars, cacheVars>>

\* The transport of socket i drops: the socket starts to reconnect.
TransportDrops(i) ==
    /\ sockets[i].state = "connected"
    /\ sockets' = [sockets EXCEPT ![i].state = "connecting"]
    /\ UNCHANGED <<config, socket, wire, queueVars>>
    /\ UNCHANGED <<resolverVars, adapterVars, syncVars, foldVars, pushVars,
                 inboundVars, pluginVars, cacheVars>>

\* The queue hands its pending operations, as one batch, to sendOperations;
\* the call returns normally whatever happened to them, so they count as
\* handed over.
SendQueued ==
    /\ syncQueue # <<>>
    /\ LET r == sendOperations(socket, sockets, wire, syncQueue) IN
          /\ sockets' = r.sockets
          /\ wire' = r.wire
    /\ syncQueue' = <<>>
    /\ UNCHANGED <<config, socket, nextSeq, deadLetter>>
    /\ UNCHANGED <<resolverVars, adapterVars, syncVars, foldVars, pushVars,
                 inboundVars, pluginVars, cacheVars>>

ChannelNext ==
    \/ Enqueue
    \/ Connect
    \/ Disconnect
    \/ SendQueued
    \/ \E i \in DOMAIN sockets : ServerAccepts(i)
    \/ \E i \in DOMAIN sockets : ServerRejects(i)
    \/ \E kind \in InboundEvents : ServerEmits(kind)
    \/ \E i \in DOMAIN sockets : TransportDrops(i)

ChannelSpec == ChannelInit /\ [][ChannelNext]_vars

InSeq(x, sq) == \E k \in DOMAIN sq : sq[k] = x

\* The operations made so far that the queue has handed over.
HandedOver == 1 .. (nextSeq - 1 - Len(syncQueue))

\* C19: no operation is lost: every operation made so far is still in the
\* Sync Queue, or waits in the buffer of a socket that can still connect, or
\* has been sent.  (The service has no dead-letter notice to give.)
C19_NoOperationLost ==
    \A x \in 1 .. (nextSeq - 1) :
        \/ InSeq(x, SeqsOf(syncQueue))
        \/ InSeq(x, wire)
        \/ \E i \in DOMAIN sockets :
              /\ sockets[i].state \in {"connecting", "connected"}
              /\ InSeq(x, sockets[i].sendBuffer)

\* C20: when the channel becomes connected while operations handed to it
\* are unsent, all of them are sent in that step: the server then has every
\* operation handed over, in sequence order, each exactly once.
C20_ReplayOnConnect ==
    [][ ( /\ socket # 0
          /\ sockets[socket].state # "connected"
          /\ sockets'[socket].state = "connected"
          /\ \E x \in HandedOver : ~InSeq(x, wire) )
        => wire' = [k \in HandedOver |-> k] ]_vars

\* C22: when the server rejects the channel's token the channel is
\* disconnected at once (its socket neither connected nor connecting), and
\* no connection is attempted afterwards with a token the server rejected.
C22_RejectedTokenNotRetried ==
    [][ /\ \A i \in DOMAIN sockets :
              (sockets[i].state = "connecting" /\ ServerRejects(i))
                 => sockets'[i].state \notin {"connecting", "connected"}
        /\ \A i \in DOMAIN sockets' :
              i \notin DOMAIN sockets
                 => ~\E j \in DOMAIN sockets :
                       /\ sockets[j].state = "rejected"
                       /\ sockets[j].token = sockets'[i].token ]_vars

\* C23: cursorUpdate, userJoined and userLeft are advisory: handling one
\* never calls the operations callback and changes nothing of the channel,
\* the queue or the sync service.
C23_AdvisoryEventsInert ==
    [][ \A kind \in AdvisoryEvents :
            ServerEmits(kind)
               => /\ delivered' = delivered
                  /\ UNCHANGED <<config, channelVars, queueVars, pushVars,
                                 syncVars, resolverVars, foldVars>> ]_vars

\* An advisory event has been handled.
C23_Witness ==
    logged > 0 /\ delivered = <<>>

\* C28: at most one socket the service opened is still open, so no inbound
\* batch of operations reaches a callback twice.
C28_AtMostOneOpenSocket ==
    /\ Cardinality({i \in DOMAIN sockets : sockets[i].state \in {"connecting", "connected"}}) <= 1
    /\ \A j, k \in DOMAIN delivered : delivered[j] = delivered[k] => j = k

(***************************************************************************)
(* PluginSpec: PluginManager (src/src/services/pluginManager.ts).          *)
(* A plugin is a record: registered, enabled, and whether it has an init   *)
(* and a destroy hook.  A hook that throws is caught and logged, so only   *)
(* its invocation counts.                                                  *)
(***************************************************************************)
\* The plugin objects a caller may hand to registerPlugin.
PluginObjects ==
    { [registered |-> TRUE, enabled |-> e, init |-> i, destroy |-> d] :
        e \in BOOLEAN, i \in BOOLEAN, d \in BOOLEAN }

PluginInit ==
    /\ config = Config("google", "timestamp")
    /\ PluginIdle
    /\ ResolverIdle /\ AdapterIdle /\ SyncIdle /\ FoldIdle
    /\ QueueIdle /\ PushIdle /\ ChannelIdle /\ InboundIdle /\ CacheIdle

\* The hook log of id with one more invocation.
Invoke(id, hook) == [hookLog EXCEPT ![id] = Append(@, hook)]

\* registerPlugin(plugin): refused if the id is taken; else the plugin is
\* stored and, if enabled and with an init hook, initialized.
RegisterPlugin(id, plugin) ==
    /\ Len(hookLog[id]) < MaxHooks
    /\ IF plugins[id].registered
       THEN UNCHANGED <<plugins, hookLog>>
       ELSE /\ plugins' = [plugins EXCEPT ![id] = plugin]
            /\ hookLog' = IF plugin.enabled /\ plugin.init
                          THEN Invoke(id, "init") ELSE hookLog
    /\ UNCHANGED <<config, resolverVars, adapterVars, syncVars, foldVars,
                   queueVars, pushVars, channelVars, inboundVars, cacheVars>>

\* unregisterPlugin(id): the destroy hook, if any, is called and the plugin
\* is deleted.
UnregisterPlugin(id) ==
    /\ Len(hookLog[id]) < MaxHooks
    /\ IF ~plugins[id].registered
       THEN UNCHANGED <<plugins, hookLog>>
       ELSE /\ hookLog' = IF plugins[id].destroy
                          THEN Invoke(id, "destroy") ELSE hookLog
            /\ plugins' = [plugins EXCEPT ![id] = NoPlugin]
    /\ UNCHANGED <<config, resolverVars, adapterVars, syncVars, foldVars,
                   queueVars, pushVars, channelVars, inboundVars, cacheVars>>

\* enablePlugin(id): a registered, disabled plugin is enabled and its init
\* hook, if any, is called.
EnablePlugin(id) ==
    /\ Len(hookLog[id]) < MaxHooks
    /\ IF ~plugins[id].registered \/ plugins[id].enabled
       THEN UNCHANGED <<plugins, hookLog>>
       ELSE /\ plugins' = [plugins EXCEPT ![id].enabled = TRUE]
            /\ hookLog' = IF plugins[id].init
                          THEN Invoke(id, "init") ELSE hookLog
    /\ UNCHANGED <<config, resolverVars, adapterVars, syncVars, foldVars,
                   queueVars, pushVars, channelVars, inboundVars, cacheVars>>

\* disablePlugin(id): a registered, enabled plugin is disabled and its
\* destroy hook, if any, is called.
DisablePlugin(id) ==
    /\ Len(hookLog[id]) < MaxHooks
    /\ IF ~plugins[id].registered \/ ~plugins[id].enabled
       THEN UNCHANGED <<plugins, hookLog>>
       ELSE /\ plugins' = [plugins EXCEPT ![id].enabled = FALSE]
            /\ hookLog' = IF plugins[id].destroy
                          THEN Invoke(id, "destroy") ELSE hookLog
    /\ UNCHANGED <<config, resolverVars, adapterVars, syncVars, foldVars,
                   queueVars, pushVars, channelVars, inboundVars, cacheVars>>

PluginNext ==
    \/ \E id \in PluginIds, plugin \in PluginObjects : RegisterPlugin(id, plugin)
    \/ \E id \in PluginIds : UnregisterPlugin(id)
    \/ \E id \in PluginIds : EnablePlugin(id)
    \/ \E id \in PluginIds : DisablePlugin(id)

PluginSpec == PluginInit /\ [][PluginNext]_vars

\* C29: the init and destroy hooks of every plugin are invoked in strict
\* alternation starting with init: the odd invocations are init, the even
\* ones destroy.
C29_HooksAlternate ==
    \A id \in PluginIds :
        \A k \in DOMAIN hookLog[id] :
            hookLog[id][k] = (IF k % 2 = 1 THEN "init" ELSE "destroy")

(***************************************************************************)
(* CacheSpec: the useCache store (src/unnamed/part_008), persistence off.  *)
(* The cache object is the sequence of its entries in the order            *)
(* Object.keys lists them (insertion order); an entry holds its key, its   *)
(* timestamp and its expiry.  A state update is applied when it is made.   *)
(***************************************************************************)
CacheKeys == {"a", "b", "c"}

CacheEntry(key, t, ttl) == [key |-> key, timestamp |-> t, expiresAt |-> t + ttl]

\* Where key is in the cache object, 0 if it is not.
IndexOf(c, key) ==
    IF \E k \in DOMAIN c : c[k].key = key
    THEN CHOOSE k \in DOMAIN c : c[k].key = key
    ELSE 0

\* delete c[key].
deleteKey(c, key) == SelectSeq(c, LAMBDA e : e.key # key)

\* c[entry.key] = entry: in place for a key the object has, at the end for
\* a new one.
assign(c, entry) ==
    IF IndexOf(c, entry.key) # 0
    THEN [c EXCEPT ![IndexOf(c, entry.key)] = entry]
    ELSE Append(c, entry)

\* keys.reduce((oldest, current) => prev[oldest].timestamp <
\* prev[current].timestamp ? oldest : current), as an index: of two entries
\* of equal timestamp the later one is kept as oldest.
RECURSIVE oldestFrom(_, _, _)
oldestFrom(c, oldest, current) ==
    IF current > Len(c)
    THEN oldest
    ELSE oldestFrom(c, IF c[oldest].timestamp < c[current].timestamp
                       THEN oldest ELSE current, current + 1)

oldestKey(c) == c[oldestFrom(c, 1, 2)].key

\* Faulty variant: room is made only once the cache is over its size.
setUpdaterLate(prev, entry, maxSize) ==
    assign(IF Len(prev) > maxSize THEN deleteKey(prev, oldestKey(prev)) ELSE prev, entry)

\* The state update of set(): a cache at or over maxSize loses its oldest
\* entry, then the new entry is assigned.
setUpdater(prev, entry, maxSize) ==
    assign(IF Len(prev) >= maxSize THEN deleteKey(prev, oldestKey(prev)) ELSE prev, entry)

\* { ...prev, ...newEntries }.
RECURSIVE assignAll(_, _)
assignAll(c, entries) ==
    IF entries = <<>> THEN c ELSE assignAll(assign(c, Head(entries)), Tail(entries))

\* The first entry among those of the least timestamp: the head of the keys
\* sorted by timestamp (the sort is stable).
firstOldest(c) ==
    CHOOSE k \in DOMAIN c :
        /\ \A j \in DOMAIN c : c[k].timestamp <= c[j].timestamp
        /\ \A j \in 1..(k - 1) : c[j].timestamp > c[k].timestamp

\* c without the first n keys of the sorted ones.
RECURSIVE dropOldest(_, _)
dropOldest(c, n) ==
    IF n = 0 THEN c ELSE dropOldest(deleteKey(c, c[firstOldest(c)].key), n - 1)

\* The state update of bulkSet().
bulkSetUpdater(prev, newEntries, maxSize) ==
    LET combinedCache == assignAll(prev, newEntries) IN
    IF Len(combinedCache) > maxSize
    THEN dropOldest(combinedCache, Len(combinedCache) - maxSize)
    ELSE combinedCache

KeysOf(c) == {c[k].key : k \in DOMAIN c}

\* The objects a caller may hand to bulkSet: their keys in order.
BulkKeys ==
    UNION { { ks \in [1..n -> CacheKeys] : \A i, j \in 1..n : ks[i] = ks[j] => i = j } :
            n \in 1..Cardinality(CacheKeys) }

CacheInit ==
    /\ config = Config("google", "timestamp")
    /\ cache = <<>>
    /\ now = 0
    /\ cacheOptions \in { [ttl |-> t, maxSize |-> m] : t \in {1, 2}, m \in 1..MaxCacheSize }
    /\ lastEvicted = "none"
    /\ ResolverIdle /\ AdapterIdle /\ SyncIdle /\ FoldIdle
    /\ QueueIdle /\ PushIdle /\ ChannelIdle /\ InboundIdle /\ PluginIdle

\* set(key, data).
CacheSet(key) ==
    /\ cache' = setUpdater(cache, CacheEntry(key, now, cacheOptions.ttl), cacheOptions.maxSize)
    /\ lastEvicted' = IF KeysOf(cache) \ KeysOf(cache') = {}
                      THEN lastEvicted
                      ELSE CHOOSE x \in KeysOf(cache) \ KeysOf(cache') : TRUE
    /\ UNCHANGED <<now, cacheOptions>>
    /\ UNCHANGED <<config, resolverVars, adapterVars, syncVars, foldVars,
                   queueVars, pushVars, channelVars, inboundVars, pluginVars>>

\* bulkSet(entries).
CacheBulkSet(ks) ==
    /\ cache' = bulkSetUpdater(cache,
                               [i \in DOMAIN ks |-> CacheEntry(ks[i], now, cacheOptions.ttl)],
                               cacheOptions.maxSize)
    /\ UNCHANGED <<now, cacheOptions, lastEvicted>>
    /\ UNCHANGED <<config, resolverVars, adapterVars, syncVars, foldVars,
                   queueVars, pushVars, channelVars, inboundVars, pluginVars>>

\* remove(key).
CacheRemove(key) ==
    /\ cache' = deleteKey(cache, key)
    /\ UNCHANGED <<now, cacheOptions, lastEvicted>>
    /\ UNCHANGED <<config, resolverVars, adapterVars, syncVars, foldVars,
                   queueVars, pushVars, channelVars, inboundVars, pluginVars>>

\* invalidate(key): calls remove(key).
CacheInvalidate(key) ==
    /\ cache' = deleteKey(cache, key)
    /\ UNCHANGED <<now, cacheOptions, lastEvicted>>
    /\ UNCHANGED <<config, resolverVars, adapterVars, syncVars, foldVars,
                   queueVars, pushVars, channelVars, inboundVars, pluginVars>>

\* clear().
CacheClear ==
    /\ cache' = <<>>
    /\ UNCHANGED <<now, cacheOptions, lastEvicted>>
    /\ UNCHANGED <<config, resolverVars, adapterVars, syncVars, foldVars,
                   queueVars, pushVars, channelVars, inboundVars, pluginVars>>

\* What get(key) and has(key) leave of the cache: an expired entry is removed.
afterLookup(c, key, t) ==
    IF IndexOf(c, key) # 0 /\ t > c[IndexOf(c, key)].expiresAt
    THEN deleteKey(c, key)
    ELSE c

\* get(key).
CacheGet(key) ==
    /\ cache' = afterLookup(cache, key, now)
    /\ UNCHANGED <<now, cacheOptions, lastEvicted>>
    /\ UNCHANGED <<config, resolverVars, adapterVars, syncVars, foldVars,
                   queueVars, pushVars, channelVars, inboundVars, pluginVars>>

\* has(key).
CacheHas(key) ==
    /\ cache' = afterLookup(cache, key, now)
    /\ UNCHANGED <<now, cacheOptions, lastEvicted>>
    /\ UNCHANGED <<config, resolverVars, adapterVars, syncVars, foldVars,
                   queueVars, pushVars, channelVars, inboundVars, pluginVars>>

\* Time passes.
ClockAdvances ==
    /\ now < MaxClock
    /\ now' = now + 1
    /\ UNCHANGED <<cache, cacheOptions, lastEvicted>>
    /\ UNCHANGED <<config, resolverVars, adapterVars, syncVars, foldVars,
                   queueVars, pushVars, channelVars, inboundVars, pluginVars>>

CacheNext ==
    \/ \E key \in CacheKeys : CacheSet(key)
    \/ \E ks \in BulkKeys : CacheBulkSet(ks)
    \/ \E key \in CacheKeys : CacheRemove(key)
    \/ \E key \in CacheKeys : CacheInvalidate(key)
    \/ CacheClear
    \/ \E key \in CacheKeys : CacheGet(key)
    \/ \E key \in CacheKeys : CacheHas(key)
    \/ ClockAdvances

CacheSpec == CacheInit /\ [][CacheNext]_vars

\* C30: the store never holds more than maxSize entries, and a set of a new
\* key into a full cache evicts exactly one entry, one of the oldest
\* timestamp: the others stay as they were and the new entry is added.
C30_BoundedWithOldestEvicted ==
    [][ /\ Len(cache') <= cacheOptions.maxSize
        /\ \A key \in CacheKeys :
              ( /\ CacheSet(key)
                /\ key \notin KeysOf(cache)
                /\ Len(cache) = cacheOptions.maxSize )
              => \E v \in DOMAIN cache :
                    /\ \A j \in DOMAIN cache : cache[v].timestamp <= cache[j].timestamp
                    /\ cache' = Append(deleteKey(cache, cache[v].key),
                                       CacheEntry(key, now, cacheOptions.ttl)) ]_vars

\* A set has evicted an entry from a full cache of more than one entry.
C30_Witness ==
    /\ lastEvicted # "none"
    /\ Len(cache) = cacheOptions.maxSize
    /\ cacheOptions.maxSize > 1

====
